---------------------------- MODULE Spec2Model ----------------------------
(* Model of the voice assistant session controller of zenFlow              *)
(* (src/components/VoiceAssistantOverlay.tsx) together with the            *)
(* application store it mutates (App, src/unnamed/part_002).               *)
(*                                                                         *)
(* Strings that the code searches or trims (titles, transcripts) are       *)
(* sequences of one-character strings; identifiers made by generateSafeId  *)
(* are fresh numbers; AudioContext clocks are integers.                    *)
EXTENDS Integers, Sequences, FiniteSets, TLC

VARIABLES
  (* App (src/unnamed/part_002) *)
  state,            \* ProductivityState store of App
  isOpen,           \* isAssistantOpen, the overlay's isOpen prop
  (* VoiceAssistantOverlay component state *)
  isActive, status, userSpeech, aiSpeech, actionLogs, history, toast,
  (* VoiceAssistantOverlay refs *)
  nextStartTime,    \* nextStartTimeRef.current
  sources,          \* sourcesRef.current, a set of source ids
  sessionRef,       \* sessionRef.current, 0 is null
  (* environment created by startSession *)
  sess,             \* one record per startSession call
  decoding,         \* onmessage handlers suspended on await decodeAudioData, FIFO
  playing,          \* started AudioBufferSourceNodes whose 'ended' event has not fired
  timers,           \* pending toast timeouts (toast ids), FIFO: all have the same delay
  clock,            \* wall time; an AudioContext's currentTime is clock - ctxStart
  ids,              \* number of ids handed out by generateSafeId
  (* history variables, written but never read by the program *)
  intrStep,         \* the last step processed an interruption event
  intrSince,        \* an interruption was processed since the last chunk was scheduled
  lastIntr,         \* number of the message whose interruption was processed last, 0: none
  schedLog,         \* every source.start(): its start time, its buffer's duration, the
                    \* message and context time of its chunk's arrival, the context
                    \* time of the call, the last interruption before each of the two
  toolTrace,        \* tool-call events: dispatch, enqueue of the response, send
  dispatched,       \* every handleToolCall call: the call, the store before and after, the result
  allLogs,          \* every entry ever given to addLog, newest first
  allTurns,         \* every turn ever committed by addToHistory, newest first
  accUser, accAi,   \* transcription deltas received since the last turn-complete event
  lastTurn,         \* the last turn-complete flush that ran: the deltas received up to
                    \* its event, and the texts it handed to addToHistory
  pendUser, pendAi, \* setUserSpeech / setAiSpeech updates React has queued for the next render
  lastFrame,        \* the status at the last session.sendRealtimeInput call
  nMsgs             \* number of onmessage calls so far

vars == << state, isOpen, isActive, status, userSpeech, aiSpeech, actionLogs, history,
           toast, nextStartTime, sources, sessionRef, sess, decoding, playing, timers,
           clock, ids, intrStep, intrSince, lastIntr, schedLog, toolTrace, dispatched,
           allLogs, allTurns, accUser, accAi, lastTurn, pendUser, pendAi,
           lastFrame, nMsgs >>

-----------------------------------------------------------------------------
(* Program constants and bounds of the model *)

LogLimit == 15
HistoryLimit == 5

MaxSessions == 2
MaxRestarts == 0
MaxClock == 2
MaxDur == 1
MaxLifeMsgs == 1
MaxAudioMsgs == 2
MaxCalls == 2
MaxBatch == 2
MaxTurnMsgs == 3
MaxBurstMsgs == 6
MaxQueuedFrames == 1
MaxToastCalls == 3
MaxStoreCalls == 3

-----------------------------------------------------------------------------
(* Strings *)

Max(a, b) == IF a >= b THEN a ELSE b
Min(a, b) == IF a <= b THEN a ELSE b

\* String.prototype.toLowerCase, one character
ToLowerChar(c) == CASE c = "A" -> "a" [] c = "B" -> "b" [] OTHER -> c

ToLowerCase(s) == [k \in 1..Len(s) |-> ToLowerChar(s[k])]

\* String.prototype.includes
Includes(s, q) == \E k \in 0..(Len(s) - Len(q)) : SubSeq(s, k + 1, k + Len(q)) = q

\* String.prototype.trim() yields the empty string
Blank_emptyOnly(s) == s = << >>

Blank(s) == \A k \in 1..Len(s) : s[k] = " "

\* the test of the filter and map callbacks of deleteItem and markTodoComplete
TitleMatches_caseSensitive(title, query) == Includes(title, query)

TitleMatches(title, query) == Includes(ToLowerCase(title), ToLowerCase(query))

-----------------------------------------------------------------------------
(* The store and the updaters handed to updateState *)

InitState == [todos |-> << >>, notes |-> << >>, events |-> << >>,
              language |-> "en", theme |-> "light"]

\* updateState: setState(prev => updater(prev)).  The updater is applied to the latest
\* store value, not to the `state` that the closure of the caller holds.
UpdateState_closure(latest, closureState) == closureState

UpdateState(latest, closureState) == latest

SetThemeUpdater_toggle(prev, theme) ==
  [prev EXCEPT !.theme = IF @ = "light" THEN "dark" ELSE "light"]

SetThemeUpdater(prev, theme) == [prev EXCEPT !.theme = theme]

SetLanguageUpdater(prev, language) == [prev EXCEPT !.language = language]

AddTodoUpdater_append(prev, newTodo) == [prev EXCEPT !.todos = Append(@, newTodo)]

AddTodoUpdater(prev, newTodo) == [prev EXCEPT !.todos = << newTodo >> \o @]

AddNoteUpdater(prev, newNote) == [prev EXCEPT !.notes = << newNote >> \o @]

AddEventUpdater(prev, newEvent) == [prev EXCEPT !.events = Append(@, newEvent)]

KeepNonMatching_keepMatching(list, title) ==
  SelectSeq(list, LAMBDA t : TitleMatches(t.title, title))

KeepNonMatching(list, title) == SelectSeq(list, LAMBDA t : ~TitleMatches(t.title, title))

DeleteItemUpdater_allLists(prev, type, title) ==
  [prev EXCEPT !.todos = KeepNonMatching(@, title),
               !.notes = IF type = "todo" THEN @ ELSE KeepNonMatching(@, title)]

DeleteItemUpdater(prev, type, title) ==
  CASE type = "todo" -> [prev EXCEPT !.todos = KeepNonMatching(@, title)]
    [] type = "note" -> [prev EXCEPT !.notes = KeepNonMatching(@, title)]
    [] type = "event" -> [prev EXCEPT !.events = KeepNonMatching(@, title)]
    [] OTHER -> prev

\* the 'found' flag as the deleteItem updater sets it
DeleteItemFound(prev, type, title) ==
  CASE type = "todo" -> Len(KeepNonMatching(prev.todos, title)) < Len(prev.todos)
    [] type = "note" -> Len(KeepNonMatching(prev.notes, title)) < Len(prev.notes)
    [] type = "event" -> Len(KeepNonMatching(prev.events, title)) < Len(prev.events)
    [] OTHER -> FALSE

MarkTodoCompleteUpdater(prev, title) ==
  [prev EXCEPT !.todos = [k \in 1..Len(@) |->
      IF TitleMatches(@[k].title, title) THEN [@[k] EXCEPT !.completed = TRUE] ELSE @[k]]]

\* the 'found' flag as the markTodoComplete updater sets it
MarkTodoCompleteFound(prev, title) ==
  \E k \in 1..Len(prev.todos) : TitleMatches(prev.todos[k].title, title)

\* JSON.stringify(state): every list in order, then the two settings
Stringify(s) == << s.todos, s.notes, s.events, s.language, s.theme >>

-----------------------------------------------------------------------------
(* Action log, toast and conversation history *)

\* [newEntry, ...prev].slice(0, limit)
PushBounded_unbounded(entry, prev, limit) == << entry >> \o prev

PushBounded_oldestFirst(entry, prev, limit) ==
  SubSeq(Append(prev, entry), 1, Min(Len(prev) + 1, limit))

PushBounded(entry, prev, limit) == SubSeq(<< entry >> \o prev, 1, Min(Len(prev) + 1, limit))

\* the part of the program state that addLog and the tool dispatcher write
Ctx == [state |-> state, actionLogs |-> actionLogs, toast |-> toast, timers |-> timers,
        ids |-> ids, allLogs |-> allLogs]

NoToast == [id |-> 0, text |-> "", arg |-> << >>, type |-> "none"]

AddLog(h, text, arg, type, toolName) ==
  LET logId == h.ids + 1
      newLog == [id |-> logId, text |-> text, arg |-> arg, type |-> type,
                 toolName |-> toolName]
      h1 == [h EXCEPT !.ids = logId,
                      !.actionLogs = PushBounded(newLog, @, LogLimit),
                      !.allLogs = << newLog >> \o @]
      toastId == logId + 1
  IN IF type \in {"success", "error"}
       THEN [h1 EXCEPT !.ids = toastId,
                       !.toast = [id |-> toastId, text |-> text, arg |-> arg, type |-> type],
                       !.timers = Append(@, toastId)]
       ELSE h1

\* setTimeout callback of addLog: setToast(current => current?.id === toastId ? null : current)
ExpireToast_always(current, toastId) == NoToast

ExpireToast(current, toastId) == IF current.id = toastId THEN NoToast ELSE current

\* addToHistory
AddToHistory(prev, user, ai, id) ==
  IF Blank(user) /\ Blank(ai) THEN prev
  ELSE PushBounded([id |-> id, user |-> user, ai |-> ai], prev, HistoryLimit)

\* setUserSpeech(prev => prev + text) / setAiSpeech(prev => prev + text)
AppendDelta_prepend(prev, delta) == IF delta.has THEN delta.text \o prev ELSE prev

AppendDelta(prev, delta) == IF delta.has THEN prev \o delta.text ELSE prev

\* a queued state update: op is "append" (prev => prev + text), "flush" (the
\* setUserSpeech updater of turnComplete) or "commit" (the setAiSpeech updater that the
\* flush updater queues when it runs, which holds currentUser).  msg, user and ai are
\* history fields: the turn-complete message and the deltas received up to it.
Update(op, delta, currentUser, msg, user, ai) ==
  [op |-> op, delta |-> delta, currentUser |-> currentUser, msg |-> msg,
   user |-> user, ai |-> ai]

\* React applies the queued setUserSpeech updates in order to the state cur; nested
\* collects the setAiSpeech calls that the flush updaters make while they run
RECURSIVE ApplyUserUpdates(_, _, _)
ApplyUserUpdates(updates, cur, nested) ==
  IF updates = << >> THEN [value |-> cur, nested |-> nested]
  ELSE LET u == Head(updates)
       IN IF u.op = "append"
            THEN ApplyUserUpdates(Tail(updates), AppendDelta(cur, u.delta), nested)
            ELSE ApplyUserUpdates(Tail(updates), << >>,
                    Append(nested, [u EXCEPT !.op = "commit", !.currentUser = cur]))

\* React applies the queued setAiSpeech updates in order; t holds the aiSpeech value
\* and what addToHistory writes
RECURSIVE ApplyAiUpdates(_, _)
ApplyAiUpdates(updates, t) ==
  IF updates = << >> THEN t
  ELSE LET u == Head(updates)
           newHistory == AddToHistory(t.history, u.currentUser, t.value, t.ids + 1)
           committed == newHistory # t.history
       IN IF u.op = "append"
            THEN ApplyAiUpdates(Tail(updates), [t EXCEPT !.value = AppendDelta(@, u.delta)])
            ELSE ApplyAiUpdates(Tail(updates),
                    [value |-> << >>,
                     history |-> newHistory,
                     allTurns |-> IF committed THEN << newHistory[1] >> \o t.allTurns
                                  ELSE t.allTurns,
                     ids |-> IF committed THEN t.ids + 1 ELSE t.ids,
                     lastTurn |-> [msg |-> u.msg, user |-> u.user, ai |-> u.ai,
                                   gotUser |-> u.currentUser, gotAi |-> t.value,
                                   committed |-> committed]])

\* one render of the component: the userSpeech queue, then the aiSpeech queue with the
\* updates the first queued while it ran at its end
ApplyQueues(userUpdates, aiUpdates, user, t) ==
  LET u == ApplyUserUpdates(userUpdates, user, << >>)
  IN [user |-> u.value, t |-> ApplyAiUpdates(aiUpdates \o u.nested, t)]

-----------------------------------------------------------------------------
(* Tool dispatcher: handleToolCall *)

Call(id, name, title, type, theme, language) ==
  [id |-> id, name |-> name, title |-> title, type |-> type, theme |-> theme,
   language |-> language]

Result(kind, text, arg) == [kind |-> kind, text |-> text, arg |-> arg, data |-> << >>]

\* the string returned by getWorkspaceData: JSON.stringify of the state the closure holds
SnapshotResult(snapshot) ==
  [kind |-> "json", text |-> "", arg |-> << >>, data |-> Stringify(snapshot)]

\* handleToolCall(fc).  closureState is the `state` the useCallback closure was made
\* with; eager tells whether the store ran the updater inside updateState, before the
\* 'found' flag is read.  Yields the written context and the returned string.
HandleToolCall(h, fc, closureState, eager) ==
  LET h0 == AddLog(h, "Agent: Executing", << fc.name >>, "tool", fc.name)
      newId == h0.ids + 1
      hid == [h0 EXCEPT !.ids = newId]
      prev == UpdateState(h0.state, closureState)
  IN CASE fc.name = "getWorkspaceData" ->
            [h |-> h0, result |-> SnapshotResult(closureState)]
       [] fc.name = "setTheme" ->
            IF fc.theme \in {"light", "dark"}
              THEN [h |-> AddLog([h0 EXCEPT !.state = SetThemeUpdater(prev, fc.theme)],
                                 "Theme Updated", << fc.theme >>, "success", ""),
                    result |-> Result("OK:", "Switched to mode", << fc.theme >>)]
              ELSE [h |-> h0, result |-> Result("Error:", "Invalid theme specified.", << >>)]
       [] fc.name = "setLanguage" ->
            [h |-> AddLog([h0 EXCEPT !.state = SetLanguageUpdater(prev, fc.language)],
                          "Language Changed", << fc.language >>, "success", ""),
             result |-> Result("OK:", "Language changed to", << fc.language >>)]
       [] fc.name = "addTodo" ->
            [h |-> AddLog([hid EXCEPT !.state = AddTodoUpdater(prev,
                              [id |-> newId, title |-> fc.title, completed |-> FALSE])],
                          "Task Added", fc.title, "success", ""),
             result |-> Result("OK:", "Added task", fc.title)]
       [] fc.name = "addNote" ->
            [h |-> AddLog([hid EXCEPT !.state = AddNoteUpdater(prev,
                              [id |-> newId, title |-> fc.title])],
                          "Note Saved", fc.title, "success", ""),
             result |-> Result("OK:", "Saved note", fc.title)]
       [] fc.name = "addEvent" ->
            [h |-> AddLog([hid EXCEPT !.state = AddEventUpdater(prev,
                              [id |-> newId, title |-> fc.title])],
                          "Event Scheduled", fc.title, "success", ""),
             result |-> Result("OK:", "Scheduled", fc.title)]
       [] fc.name = "deleteItem" ->
            LET found == eager /\ DeleteItemFound(h0.state, fc.type, fc.title)
                hd == [h0 EXCEPT !.state = DeleteItemUpdater(prev, fc.type, fc.title)]
            IN IF ~found
                 THEN [h |-> hd, result |-> Result("Error:", "Item not found.", fc.title)]
                 ELSE [h |-> AddLog(hd, "Removed", << fc.type >>, "success", ""),
                       result |-> Result("OK:", "Removed", fc.title)]
       [] fc.name = "markTodoComplete" ->
            LET found == eager /\ MarkTodoCompleteFound(h0.state, fc.title)
                hm == [h0 EXCEPT !.state = MarkTodoCompleteUpdater(prev, fc.title)]
            IN IF ~found
                 THEN [h |-> hm, result |-> Result("Error:", "Task not found.", fc.title)]
                 ELSE [h |-> AddLog(hm, "Completed", fc.title, "success", ""),
                       result |-> Result("OK:", "Marked as done.", fc.title)]
       [] OTHER -> [h |-> h0, result |-> Result("OK", "", << >>)]

\* sessionPromise.then(callback): callbacks run in the order they were registered
Then_newestFirst(callbacks, callback) == << callback >> \o callbacks

Then(callbacks, callback) == Append(callbacks, callback)

\* the for loop over message.toolCall.functionCalls: each call is dispatched and its
\* sessionPromise.then(... sendToolResponse ...) registered before the next call.
\* acc is [h, trace, pend, disp]; eagers[k] is the eager flag of call k.
RECURSIVE RunToolCalls(_, _, _, _, _, _)
RunToolCalls(acc, calls, closureState, eagers, msg, k) ==
  IF k > Len(calls) THEN acc
  ELSE LET fc == calls[k]
           r == HandleToolCall(acc.h, fc, closureState, eagers[k])
           ev(kind) == [ev |-> kind, id |-> fc.id, name |-> fc.name,
                        result |-> r.result, msg |-> msg]
           next == [h |-> r.h,
                    trace |-> acc.trace \o << ev("dispatch"), ev("enqueue") >>,
                    pend |-> Then(acc.pend, ev("send")),
                    disp |-> Append(acc.disp,
                               [fc |-> fc, pre |-> acc.h.state, post |-> r.h.state,
                                result |-> r.result, closureState |-> closureState,
                                eager |-> eagers[k], msg |-> msg,
                                logged |-> SubSeq(r.h.allLogs, 1,
                                              Len(r.h.allLogs) - Len(acc.h.allLogs))])]
       IN RunToolCalls(next, calls, closureState, eagers, msg, k + 1)

-----------------------------------------------------------------------------
(* Initial state: App and the overlay as constructed, overlay closed *)

NoTurn ==
  [msg |-> 0, user |-> << >>, ai |-> << >>, gotUser |-> << >>, gotAi |-> << >>,
   committed |-> FALSE]

InitFrom(stored) ==
  /\ state = stored
  /\ isOpen = FALSE
  /\ isActive = FALSE
  /\ status = "idle"
  /\ userSpeech = << >>
  /\ aiSpeech = << >>
  /\ actionLogs = << >>
  /\ history = << >>
  /\ toast = NoToast
  /\ nextStartTime = 0
  /\ sources = {}
  /\ sessionRef = 0
  /\ sess = << >>
  /\ decoding = << >>
  /\ playing = {}
  /\ timers = << >>
  /\ clock = 0
  /\ ids = 0
  /\ intrStep = FALSE
  /\ intrSince = FALSE
  /\ lastIntr = 0
  /\ schedLog = << >>
  /\ toolTrace = << >>
  /\ dispatched = << >>
  /\ allLogs = << >>
  /\ allTurns = << >>
  /\ accUser = << >>
  /\ accAi = << >>
  /\ lastTurn = NoTurn
  /\ pendUser = << >>
  /\ pendAi = << >>
  /\ lastFrame = "none"
  /\ nMsgs = 0

\* App's initial useState value (no saved state)
Init == InitFrom(InitState)

appVars == << state, isOpen >>
logVars == << actionLogs, toast, timers, ids, allLogs >>
turnVars == << userSpeech, aiSpeech, history, allTurns, accUser, accAi, lastTurn,
              pendUser, pendAi >>
audioVars == << nextStartTime, sources, decoding, playing, schedLog, intrSince, lastIntr >>
toolVars == << toolTrace, dispatched >>

\* writes back the context that addLog and the dispatcher worked on
SetCtx(h) ==
  /\ state' = h.state
  /\ actionLogs' = h.actionLogs
  /\ toast' = h.toast
  /\ timers' = h.timers
  /\ ids' = h.ids
  /\ allLogs' = h.allLogs

\* the isOpen effect is due: useEffect(() => { if (!isOpen && isActive) stopSession() })
\* runs after the render that changed isOpen or isActive, before the next event
EffectDue == ~isOpen /\ isActive

\* outputCtx.currentTime of the AudioContext that startSession call i made
CtxNow(i) == clock - sess[i].ctxStart

Sessions == 1..Len(sess)

-----------------------------------------------------------------------------
(* The overlay's open state and the store's other writers (App) *)

\* App: onClick={() => setIsAssistantOpen(true)}
OpenOverlay ==
  /\ ~isOpen /\ ~EffectDue
  /\ isOpen' = TRUE
  /\ intrStep' = FALSE
  /\ UNCHANGED << state, isActive, status, sessionRef, sess, clock, lastFrame, nMsgs,
                  logVars, turnVars, audioVars, toolVars >>

\* App: onClose={() => setIsAssistantOpen(false)}
Dismiss ==
  /\ isOpen
  /\ isOpen' = FALSE
  /\ intrStep' = FALSE
  /\ UNCHANGED << state, isActive, status, sessionRef, sess, clock, lastFrame, nMsgs,
                  logVars, turnVars, audioVars, toolVars >>

\* App.toggleDarkMode, the header button; the open overlay covers it
ToggleDarkMode ==
  /\ ~isOpen /\ ~EffectDue
  /\ state' = SetThemeUpdater(state, IF state.theme = "dark" THEN "light" ELSE "dark")
  /\ intrStep' = FALSE
  /\ UNCHANGED << isOpen, isActive, status, sessionRef, sess, clock, lastFrame, nMsgs,
                  logVars, turnVars, audioVars, toolVars >>

-----------------------------------------------------------------------------
(* Session lifecycle: startSession, its callbacks, stopSession *)

NewSession ==
  [phase |-> "mic", resolved |-> FALSE, mic |-> FALSE, capturing |-> FALSE,
   ctxStart |-> clock, closureState |-> state, pendResp |-> << >>, queuedFrames |-> 0]

\* the start button: onClick={isActive ? stopSession : startSession},
\* disabled={status === 'connecting'}; startSession up to await getUserMedia
Start ==
  /\ isOpen /\ ~isActive /\ status # "connecting" /\ ~EffectDue
  /\ status' = "connecting"
  /\ sess' = Append(sess, NewSession)
  /\ intrStep' = FALSE
  /\ UNCHANGED << appVars, isActive, sessionRef, clock, lastFrame, nMsgs,
                  logVars, turnVars, audioVars, toolVars >>

\* getUserMedia resolves: the microphone stream is live, ai.live.connect is called
MicGranted(i) ==
  /\ sess[i].phase = "mic" /\ ~EffectDue
  /\ sess' = [sess EXCEPT ![i].phase = "connecting", ![i].mic = TRUE]
  /\ intrStep' = FALSE
  /\ UNCHANGED << appVars, isActive, status, sessionRef, clock, lastFrame, nMsgs,
                  logVars, turnVars, audioVars, toolVars >>

\* catch (err) of startSession
InitFailure(i) ==
  /\ sess' = [sess EXCEPT ![i].phase = "failed"]
  /\ status' = "idle"
  /\ SetCtx(AddLog(Ctx, "Init Failure.", << >>, "error", ""))
  /\ intrStep' = FALSE
  /\ UNCHANGED << isOpen, isActive, sessionRef, clock, lastFrame, nMsgs,
                  turnVars, audioVars, toolVars >>

\* getUserMedia rejects (permission denied)
MicDenied(i) ==
  /\ sess[i].phase = "mic" /\ ~EffectDue
  /\ InitFailure(i)

\* ai.live.connect rejects (handshake failure)
ConnectFail(i) ==
  /\ sess[i].phase = "connecting" /\ ~EffectDue
  /\ InitFailure(i)

\* callbacks.onopen
OnOpen(i) ==
  /\ sess[i].phase = "connecting" /\ ~EffectDue
  /\ status' = "listening"
  /\ isActive' = TRUE
  /\ SetCtx(AddLog(Ctx, "Link Optimized.", << >>, "info", ""))
  /\ sess' = [sess EXCEPT ![i].phase = "open", ![i].capturing = TRUE]
  /\ intrStep' = FALSE
  /\ UNCHANGED << isOpen, sessionRef, clock, lastFrame, nMsgs,
                  turnVars, audioVars, toolVars >>

\* sessionRef.current = await sessionPromise: the promise of ai.live.connect resolves;
\* the then-callbacks registered on it meanwhile run in registration order
HandshakeComplete(i) ==
  /\ sess[i].phase \in {"open", "closing", "closed"} /\ ~sess[i].resolved
  /\ sessionRef' = i
  /\ sess' = [sess EXCEPT ![i].resolved = TRUE, ![i].pendResp = << >>,
                          ![i].queuedFrames = 0]
  /\ toolTrace' = toolTrace \o sess[i].pendResp
  /\ lastFrame' = IF sess[i].queuedFrames > 0 THEN status ELSE lastFrame
  /\ intrStep' = FALSE
  /\ UNCHANGED << appVars, isActive, status, clock, nMsgs, dispatched,
                  logVars, turnVars, audioVars >>

\* session.close() of stopSession on the session sessionRef holds
CloseRef_forgetClose(s, ref) == s

CloseRef(s, ref) ==
  IF ref # 0 /\ s[ref].phase = "open" THEN [s EXCEPT ![ref].phase = "closing"] ELSE s

\* stopSession
StopSession ==
  /\ sess' = CloseRef(sess, sessionRef)
  /\ sessionRef' = 0
  /\ isActive' = FALSE
  /\ status' = "idle"
  /\ intrStep' = FALSE
  /\ UNCHANGED << appVars, clock, lastFrame, nMsgs, logVars, turnVars, audioVars, toolVars >>

\* the button while a session is active: onClick={isActive ? stopSession : startSession}
Stop ==
  /\ isOpen /\ isActive /\ status # "connecting"
  /\ StopSession

\* useEffect(() => { if (!isOpen && isActive) stopSession(); }, [isOpen, isActive])
EffectStop ==
  /\ EffectDue
  /\ StopSession

\* callbacks.onclose: the transport closed, by close() or by the remote
OnClose(i) ==
  /\ sess[i].phase \in {"open", "closing"} /\ ~EffectDue
  /\ sess' = [sess EXCEPT ![i].phase = "closed"]
  /\ status' = "idle"
  /\ isActive' = FALSE
  /\ SetCtx(AddLog(Ctx, "Session Closed.", << >>, "info", ""))
  /\ intrStep' = FALSE
  /\ UNCHANGED << isOpen, sessionRef, clock, lastFrame, nMsgs,
                  turnVars, audioVars, toolVars >>

\* callbacks.onerror: a transport error of an open session; its close event follows
OnError(i) ==
  /\ sess[i].phase = "open" /\ ~EffectDue
  /\ sess' = [sess EXCEPT ![i].phase = "closing"]
  /\ status' = "idle"
  /\ isActive' = FALSE
  /\ SetCtx(AddLog(Ctx, "Link Terminal.", << >>, "error", ""))
  /\ intrStep' = FALSE
  /\ UNCHANGED << isOpen, sessionRef, clock, lastFrame, nMsgs,
                  turnVars, audioVars, toolVars >>

\* scriptProcessor.onaudioprocess: sessionPromise.then(session => sendRealtimeInput(...)).
\* Nothing disconnects the processor or stops the stream, so it fires from onopen on.
AudioProcess(i) ==
  /\ sess[i].capturing /\ ~EffectDue
  /\ IF sess[i].resolved
       THEN /\ lastFrame' = status
            /\ sess' = sess
       ELSE /\ sess[i].queuedFrames < MaxQueuedFrames
            /\ sess' = [sess EXCEPT ![i].queuedFrames = @ + 1]
            /\ lastFrame' = lastFrame
  /\ intrStep' = FALSE
  /\ UNCHANGED << appVars, isActive, status, sessionRef, clock, nMsgs,
                  logVars, turnVars, audioVars, toolVars >>

\* time passes
Tick ==
  /\ ~EffectDue
  /\ clock' = clock + 1
  /\ intrStep' = FALSE
  /\ UNCHANGED << appVars, isActive, status, sessionRef, sess, lastFrame, nMsgs,
                  logVars, turnVars, audioVars, toolVars >>

\* the setTimeout callback of the oldest pending toast
TimerFire ==
  /\ timers # << >> /\ ~EffectDue
  /\ toast' = ExpireToast(toast, Head(timers))
  /\ timers' = Tail(timers)
  /\ intrStep' = FALSE
  /\ UNCHANGED << appVars, isActive, status, sessionRef, sess, clock, lastFrame, nMsgs,
                  actionLogs, ids, allLogs, turnVars, audioVars, toolVars >>

-----------------------------------------------------------------------------
(* callbacks.onmessage *)

NoText == [has |-> FALSE, text |-> << >>]
Text(t) == [has |-> TRUE, text |-> t]

Message(inTx, outTx, turnComplete, audio, toolCalls, interrupted) ==
  [inTx |-> inTx, outTx |-> outTx, turnComplete |-> turnComplete, audio |-> audio,
   toolCalls |-> toolCalls, interrupted |-> interrupted]

\* the remote gives every function call of message msg its own id
WithIds(calls, msg) == [k \in 1..Len(calls) |-> [calls[k] EXCEPT !.id = 10 * msg + k]]

\* whether updateState ran the updater before it returned: the updaters of the other
\* tools set no flag that is read afterwards
EagerChoices(calls) ==
  { e \in [1..Len(calls) -> BOOLEAN] :
      \A k \in 1..Len(calls) :
         calls[k].name \notin {"deleteItem", "markTodoComplete"} => e[k] }

\* nextStartTimeRef.current = Math.max(nextStartTimeRef.current, outputCtx.currentTime)
ScheduleAt_now(nst, now) == now

ScheduleAt(nst, now) == Max(nst, now)

\* nextStartTimeRef.current += buffer.duration
AdvanceCursor_keep(nst, duration) == nst

AdvanceCursor(nst, duration) == nst + duration

\* sourcesRef.current.forEach(s => s.stop())
StopAll(play, srcs) ==
  { IF p.id \in srcs THEN [p EXCEPT !.stopped = TRUE] ELSE p : p \in play }

\* the end of the handler, from `if (message.toolCall)` on: the tool-call loop, the
\* then-callbacks it registered (run at once when the promise is already resolved),
\* and the interruption.  h, srcs, nst, play, since are the values the part of the
\* handler before it left.
Finish(i, calls, interrupted, msg, eagers, h, srcs, nst, play, since) ==
  LET acc == RunToolCalls([h |-> h, trace |-> toolTrace, pend |-> << >>,
                           disp |-> dispatched],
                          calls, sess[i].closureState, eagers, msg, 1)
  IN /\ SetCtx(acc.h)
     /\ dispatched' = acc.disp
     /\ IF sess[i].resolved
          THEN /\ toolTrace' = acc.trace \o acc.pend
               /\ sess' = sess
          ELSE /\ toolTrace' = acc.trace
               /\ sess' = [sess EXCEPT ![i].pendResp = @ \o acc.pend]
     /\ IF interrupted
          THEN /\ playing' = StopAll(play, srcs)
               /\ sources' = {}
               /\ nextStartTime' = 0
               /\ intrSince' = TRUE
               /\ lastIntr' = msg
          ELSE /\ playing' = play
               /\ sources' = srcs
               /\ nextStartTime' = nst
               /\ intrSince' = since
               /\ lastIntr' = lastIntr
     /\ intrStep' = interrupted

\* the part of the component state that the transcript updaters write
TurnNow ==
  [value |-> aiSpeech, history |-> history, allTurns |-> allTurns, ids |-> ids,
   lastTurn |-> lastTurn]

SetTurn(user, t) ==
  /\ userSpeech' = user
  /\ aiSpeech' = t.value
  /\ history' = t.history
  /\ allTurns' = t.allTurns
  /\ lastTurn' = t.lastTurn

\* onmessage from its start to its end or, for a message with audio, to
\* `await decodeAudioData`.  eagerFlush: the component had no update pending and React
\* ran the turnComplete updater inside the setUserSpeech call; otherwise the updater
\* waits in the queue for the next render.
OnMessage(i, m) ==
  /\ sess[i].phase = "open" /\ ~EffectDue
  /\ \E eagerFlush \in BOOLEAN :
      LET msg == nMsgs + 1
          noDelta == [has |-> FALSE, text |-> << >>]
          users == IF m.inTx.has
                     THEN Append(pendUser, Update("append", m.inTx, << >>, 0, << >>, << >>))
                     ELSE pendUser
          ais == IF m.outTx.has
                   THEN Append(pendAi, Update("append", m.outTx, << >>, 0, << >>, << >>))
                   ELSE pendAi
          ghostUser == IF m.inTx.has THEN Append(accUser, m.inTx.text) ELSE accUser
          ghostAi == IF m.outTx.has THEN Append(accAi, m.outTx.text) ELSE accAi
          flush == Update("flush", noDelta, << >>, msg, ghostUser, ghostAi)
          ran == ApplyQueues(<< flush >>, << >>, userSpeech, TurnNow)
          h == IF eagerFlush THEN [Ctx EXCEPT !.ids = ran.t.ids] ELSE Ctx
          calls == WithIds(m.toolCalls, msg)
      IN /\ eagerFlush => m.turnComplete /\ users = << >> /\ ais = << >>
         /\ nMsgs' = msg
         /\ accUser' = IF m.turnComplete THEN << >> ELSE ghostUser
         /\ accAi' = IF m.turnComplete THEN << >> ELSE ghostAi
         /\ IF eagerFlush
              THEN /\ SetTurn(ran.user, ran.t)
                   /\ UNCHANGED << pendUser, pendAi >>
              ELSE /\ pendUser' = IF m.turnComplete THEN Append(users, flush) ELSE users
                   /\ pendAi' = ais
                   /\ UNCHANGED << userSpeech, aiSpeech, history, allTurns, lastTurn >>
         /\ IF m.audio > 0
              THEN /\ status' = "speaking"
                   /\ nextStartTime' = ScheduleAt(nextStartTime, CtxNow(i))
                   /\ decoding' = Append(decoding,
                                    [sess |-> i, duration |-> m.audio, calls |-> calls,
                                     interrupted |-> m.interrupted, msg |-> msg,
                                     arrived |-> CtxNow(i), intr |-> lastIntr])
                   /\ SetCtx(h)
                   /\ intrStep' = FALSE
                   /\ UNCHANGED << sources, playing, intrSince, lastIntr, sess, toolTrace,
                                   dispatched >>
              ELSE /\ \E eagers \in EagerChoices(calls) :
                         Finish(i, calls, m.interrupted, msg, eagers, h,
                                sources, nextStartTime, playing, intrSince)
                   /\ UNCHANGED << status, decoding >>
  /\ UNCHANGED << isOpen, isActive, sessionRef, clock, lastFrame, schedLog >>

\* React renders the component: the queued transcript updates are applied
Render ==
  /\ (pendUser # << >> \/ pendAi # << >>) /\ ~EffectDue
  /\ LET ran == ApplyQueues(pendUser, pendAi, userSpeech, TurnNow)
     IN /\ SetTurn(ran.user, ran.t)
        /\ ids' = ran.t.ids
  /\ pendUser' = << >>
  /\ pendAi' = << >>
  /\ intrStep' = FALSE
  /\ UNCHANGED << appVars, isActive, status, sessionRef, sess, clock, lastFrame, nMsgs,
                  actionLogs, toast, timers, allLogs, accUser, accAi,
                  audioVars, toolVars >>

\* the oldest suspended handler resumes after `await decodeAudioData`: it starts the
\* source at the cursor, advances the cursor, and runs the rest of the handler
DecodeDone ==
  /\ decoding # << >> /\ ~EffectDue
  /\ LET d == Head(decoding)
         i == d.sess
         source == Len(schedLog) + 1
         startAt == nextStartTime
         begins == Max(startAt, CtxNow(i))
     IN /\ decoding' = Tail(decoding)
        /\ schedLog' = Append(schedLog, [id |-> source, sess |-> i, start |-> startAt,
                                         duration |-> d.duration, arrived |-> d.arrived,
                                         afterInterrupt |-> intrSince, msg |-> d.msg,
                                         at |-> CtxNow(i), intrArrived |-> d.intr,
                                         intr |-> lastIntr])
        /\ \E eagers \in EagerChoices(d.calls) :
              Finish(i, d.calls, d.interrupted, d.msg, eagers, Ctx,
                     sources \cup {source},
                     AdvanceCursor(nextStartTime, d.duration),
                     playing \cup {[id |-> source, sess |-> i,
                                    endAt |-> begins + d.duration, stopped |-> FALSE]},
                     FALSE)
  /\ UNCHANGED << isOpen, isActive, status, sessionRef, clock, lastFrame, nMsgs, turnVars >>

\* the 'ended' listener of a started source: the buffer played to its end or was stopped
Ended(p) ==
  /\ p \in playing /\ ~EffectDue
  /\ p.stopped \/ CtxNow(p.sess) >= p.endAt
  /\ playing' = playing \ {p}
  /\ sources' = sources \ {p.id}
  /\ status' = IF sources \ {p.id} = {} THEN "listening" ELSE status
  /\ intrStep' = FALSE
  /\ UNCHANGED << appVars, isActive, sessionRef, sess, clock, lastFrame, nMsgs,
                  nextStartTime, decoding, schedLog, intrSince, lastIntr,
                  logVars, turnVars, toolVars >>

-----------------------------------------------------------------------------
(* Specifications.  Every specification runs the same handlers; they differ in   *)
(* the messages the remote sends, in how many of them, and in which of the       *)
(* events that do not write the variables under study are left out.              *)

\* every lifecycle event
Lifecycle ==
  \/ OpenOverlay
  \/ Dismiss
  \/ Len(sess) < MaxSessions /\ Start
  \/ \E i \in Sessions : MicGranted(i)
  \/ \E i \in Sessions : MicDenied(i)
  \/ \E i \in Sessions : ConnectFail(i)
  \/ \E i \in Sessions : OnOpen(i)
  \/ \E i \in Sessions : HandshakeComplete(i)
  \/ Stop
  \/ EffectStop
  \/ \E i \in Sessions : OnClose(i)
  \/ \E i \in Sessions : OnError(i)

\* the lifecycle events of a session that opens
Connect ==
  \/ OpenOverlay
  \/ \E i \in Sessions : MicGranted(i)
  \/ \E i \in Sessions : OnOpen(i)
  \/ \E i \in Sessions : HandshakeComplete(i)

\* the lifecycle events of sessions that open, are stopped by the button and restarted
Core ==
  \/ Connect
  \/ Stop
  \/ \E i \in Sessions : OnClose(i)

Audio(d, x) == Message(NoText, NoText, FALSE, d, << >>, x)

\* Spec: the whole lifecycle, the capture pipeline, and one response-audio chunk
LifeMessages == { Audio(1, FALSE) }

Next ==
  \/ Lifecycle
  \/ \E i \in Sessions : AudioProcess(i)
  \/ \E i \in Sessions, m \in LifeMessages : nMsgs < MaxLifeMsgs /\ OnMessage(i, m)
  \/ DecodeDone
  \/ \E p \in playing : Ended(p)
  \/ clock < MaxClock /\ Tick

Spec == Init /\ [][Next]_vars

\* SpecAudio: audio chunks and interruptions in sessions that are stopped and restarted
AudioMessages == { Audio(d, x) : d \in 0..MaxDur, x \in BOOLEAN } \ { Audio(0, FALSE) }

NextAudio ==
  \/ Core
  \/ Len(sess) < MaxSessions /\ Start
  \/ \E i \in Sessions, m \in AudioMessages : nMsgs < MaxAudioMsgs /\ OnMessage(i, m)
  \/ DecodeDone
  \/ \E p \in playing : Ended(p)
  \/ clock < MaxClock /\ Tick

SpecAudio == Init /\ [][NextAudio]_vars

\* SpecTools: tool-call batches against a store loaded from localStorage
\* (App, useEffect on user)
Todo(id, title, completed) == [id |-> id, title |-> title, completed |-> completed]
Item(id, title) == [id |-> id, title |-> title]

StoredStates ==
  { InitState,
    [InitState EXCEPT !.todos = << Todo(101, << "a", "B" >>, FALSE),
                                  Todo(102, << "b" >>, TRUE),
                                  Todo(103, << "A" >>, FALSE) >>,
                      !.notes = << Item(104, << "A", "b" >>), Item(105, << "a" >>) >>,
                      !.events = << Item(106, << "b" >>), Item(107, << "B", "b" >>) >>,
                      !.theme = "dark"] }

InitStored == \E stored \in StoredStates : InitFrom(stored)

NoArg == << >>

ToolCalls ==
  { Call(0, "getWorkspaceData", NoArg, "", "", ""),
    Call(0, "setTheme", NoArg, "", "dark", ""),
    Call(0, "setTheme", NoArg, "", "purple", ""),
    Call(0, "setLanguage", NoArg, "", "", "es"),
    Call(0, "addTodo", << "A", "b" >>, "", "", ""),
    Call(0, "addNote", << "b" >>, "", "", ""),
    Call(0, "addEvent", << "a" >>, "", "", ""),
    Call(0, "deleteItem", << "a" >>, "todo", "", ""),
    Call(0, "deleteItem", << "B" >>, "note", "", ""),
    Call(0, "deleteItem", << "A" >>, "event", "", ""),
    Call(0, "deleteItem", << "a" >>, "task", "", ""),
    Call(0, "markTodoComplete", << "A" >>, "", "", ""),
    Call(0, "playMusic", NoArg, "", "", "") }

ToolMessage(batch) == Message(NoText, NoText, FALSE, 0, batch, FALSE)

\* the user starts one session
FirstStart == sess = << >> /\ Start

NextTools ==
  \/ Core
  \/ FirstStart
  \/ \E i \in Sessions, n \in 1..MaxBatch :
        /\ Len(dispatched) + n <= MaxCalls
        /\ \E batch \in [1..n -> ToolCalls] : OnMessage(i, ToolMessage(batch))

SpecTools == InitStored /\ [][NextTools]_vars

\* SpecTurn: transcription deltas and turn-complete events
TurnMessages ==
  { Message(i, o, t, 0, << >>, FALSE) :
      i \in { NoText, Text(<< "h", "i" >>), Text(<< " " >>) },
      o \in { NoText, Text(<< "o", "k" >>) },
      t \in BOOLEAN } \ { Message(NoText, NoText, FALSE, 0, << >>, FALSE) }

NextTurn ==
  \/ Core
  \/ Len(sess) <= MaxRestarts /\ Start
  \/ \E i \in Sessions, m \in TurnMessages : nMsgs < MaxTurnMsgs /\ OnMessage(i, m)
  \/ Render

SpecTurn == Init /\ [][NextTurn]_vars

\* SpecBurst: bursts of log entries and turns, enough of them to overflow both buffers
BurstMessages ==
  { Message(Text(<< "h", "i" >>), NoText, TRUE, 0,
            << Call(0, "setTheme", NoArg, "", "dark", ""),
               Call(0, "setTheme", NoArg, "", "purple", ""),
               Call(0, "setLanguage", NoArg, "", "", "es"),
               Call(0, "addTodo", << "a" >>, "", "", "") >>, FALSE),
    Message(NoText, Text(<< "o", "k" >>), TRUE, 0, << >>, FALSE) }

NextBurst ==
  \/ Connect
  \/ FirstStart
  \/ \E i \in Sessions, m \in BurstMessages : nMsgs < MaxBurstMsgs /\ OnMessage(i, m)
  \/ Render

SpecBurst == Init /\ [][NextBurst]_vars

\* SpecStore: tool calls that add to the store or set a setting, in sessions that are
\* started and dismissed, and the dark-mode button of the page
StoreCalls ==
  { Call(0, "setLanguage", NoArg, "", "", "es"),
    Call(0, "addTodo", << "A", "b" >>, "", "", ""),
    Call(0, "addEvent", << "a" >>, "", "", "") }

NextStore ==
  \/ Connect
  \/ Len(sess) <= MaxRestarts /\ Start
  \/ Dismiss
  \/ EffectStop
  \/ ToggleDarkMode
  \/ \E i \in Sessions, n \in 1..MaxBatch :
        /\ Len(dispatched) + n <= MaxStoreCalls
        /\ \E batch \in [1..n -> StoreCalls] : OnMessage(i, ToolMessage(batch))

SpecStore == InitStored /\ [][NextStore]_vars

\* SpecToast: tool calls and a transport error that raise toasts, and the toast timers
ToastCalls ==
  { Call(0, "setTheme", NoArg, "", "dark", ""),
    Call(0, "setTheme", NoArg, "", "purple", ""),
    Call(0, "addNote", << "b" >>, "", "", "") }

NextToast ==
  \/ Connect
  \/ FirstStart
  \/ \E i \in Sessions, n \in 1..MaxBatch :
        /\ Len(dispatched) + n <= MaxToastCalls
        /\ \E batch \in [1..n -> ToastCalls] : OnMessage(i, ToolMessage(batch))
  \/ \E i \in Sessions : OnError(i)
  \/ TimerFire

SpecToast == Init /\ [][NextToast]_vars

-----------------------------------------------------------------------------
(* Claims about the session lifecycle (Spec) *)

OpenSessions == { i \in Sessions : sess[i].phase = "open" }

\* capture pipelines whose onaudioprocess hands frames to their session
FeedingPipelines == { i \in Sessions : sess[i].capturing }

\* C1: in every reachable state at most one remote session is open and at most one
\* audio capture pipeline is feeding a session.
C1_AtMostOneSession ==
  /\ Cardinality(OpenSessions) <= 1
  /\ Cardinality(FeedingPipelines) <= 1

\* C9: frames are sent only while the status is listening or speaking, and once a
\* session is closed (by stop, dismissal, remote close or transport error) its capture
\* has stopped and its microphone is released.
C9_CaptureOnlyWhileOpen ==
  /\ lastFrame \in {"none", "listening", "speaking"}
  /\ \A i \in Sessions :
        sess[i].phase \in {"closing", "closed"} => ~sess[i].capturing /\ ~sess[i].mic

\* C10: stop() and the dismissal of the overlay while a session is active (also a
\* session that became active after the dismissal) leave the status idle, no transport
\* open and no microphone held.
C10_StopTearsDown ==
  [][ (Stop \/ EffectStop) =>
        /\ status' = "idle"
        /\ \A i \in 1..Len(sess') : sess'[i].phase # "open" /\ ~sess'[i].mic ]_vars

\* C11: a start() that fails, by a denied microphone or a failed handshake, appends
\* exactly one log entry, of kind error, and leaves the status idle, no session active
\* and the microphone of the failed attempt not acquired, so that start() can be called
\* again.
C11_StartFailureCleansUp ==
  [][ \A i \in Sessions :
        (MicDenied(i) \/ ConnectFail(i)) =>
           /\ Len(allLogs') = Len(allLogs) + 1
           /\ allLogs'[1].type = "error"
           /\ status' = "idle"
           /\ ~isActive'
           /\ ~sess'[i].mic ]_vars

\* C20: every step that changes the lifecycle status (idle to connecting, connecting to
\* listening, listening to speaking and back, any status to idle by stop, remote close
\* or error) appends an entry to the action log.
C20_TransitionsAreLogged ==
  [][ status' # status => Len(allLogs') > Len(allLogs) ]_vars

\* C25: the status is listening or speaking only while a session is active: once a
\* stop, a remote close or a transport error has set it to idle, it stays idle until
\* the next start.
C25_IdleUntilNextStart ==
  status \in {"listening", "speaking"} => isActive

-----------------------------------------------------------------------------
(* Claims about the playback cursor (SpecAudio) *)

\* C2 as stated: the playback cursor never moves backward, in any step.
C2_NeverBackward == [][ nextStartTime' >= nextStartTime ]_vars

\* C2, amended: the playback cursor never moves backward in a step that processes no
\* interruption event; a step that processes one sets it to 0.
C2_BackwardOnlyOnInterrupt ==
  [][ nextStartTime' >= nextStartTime \/ (intrStep' /\ nextStartTime' = 0) ]_vars

\* a chunk was scheduled in a restarted session at a cursor the first session left
C2_Witness ==
  \E k \in 1..Len(schedLog) :
     /\ schedLog[k].sess = 2
     /\ ~schedLog[k].afterInterrupt
     /\ schedLog[k].start > schedLog[k].arrived

\* C3 as stated: every chunk starts no earlier than the previous chunk's start plus the
\* previous chunk's duration.
C3_NoOverlap ==
  \A k \in 2..Len(schedLog) :
     schedLog[k].start >= schedLog[k - 1].start + schedLog[k - 1].duration

\* C3, amended: a chunk scheduled with no interruption processed since the previous
\* chunk was scheduled starts no earlier than the previous chunk's start plus the
\* previous chunk's duration.
C3_NoOverlapUnlessInterrupted ==
  \A k \in 2..Len(schedLog) :
     ~schedLog[k].afterInterrupt =>
        schedLog[k].start >= schedLog[k - 1].start + schedLog[k - 1].duration

\* two chunks back to back: the second starts where the first ends, after its arrival
C3_Witness ==
  \E k \in 2..Len(schedLog) :
     /\ ~schedLog[k].afterInterrupt
     /\ schedLog[k].start = schedLog[k - 1].start + schedLog[k - 1].duration
     /\ schedLog[k].start > schedLog[k].arrived

\* the chunk of schedLog[k] is the first to arrive after the interruption of message n
\* was processed, and no other interruption was processed before it was scheduled
NextAfterInterruption(k, n) ==
  /\ n > 0
  /\ schedLog[k].intrArrived = n
  /\ schedLog[k].intr = n
  /\ \A j \in 1..(k - 1) : schedLog[j].intrArrived # n

\* the next chunk to arrive after an interruption was scheduled at the current time:
\* not before the time of its arrival and not after the time at which it is started
NextChunkAtNow ==
  \A k \in 1..Len(schedLog) :
     NextAfterInterruption(k, schedLog[k].intr) =>
        /\ schedLog[k].arrived <= schedLog[k].start
        /\ schedLog[k].start <= schedLog[k].at

\* C12: a step that processes an interruption event while buffers are scheduled (in the
\* set before the step, or scheduled by the same message) stops every scheduled buffer,
\* empties the scheduled set and leaves the status listening; the next chunk to arrive
\* is scheduled at the current time.
C12_InterruptionResets ==
  [][ /\ intrStep' /\ (sources # {} \/ Len(schedLog') > Len(schedLog)) =>
            /\ sources' = {}
            /\ \A p \in playing' : p.stopped
            /\ status' = "listening"
      /\ NextChunkAtNow' ]_vars

\* C26: no chunk that was received before an interruption event was processed is
\* started or added to the scheduled set after it: the latest interruption processed
\* when a chunk is started is the one that was the latest when the chunk arrived.
C26_NoChunkFromBeforeInterruption ==
  \A k \in 1..Len(schedLog) : schedLog[k].intr = schedLog[k].intrArrived

\* C28: in an active session the status is speaking whenever the set of scheduled
\* buffers is non-empty.
C28_SpeakingWhileScheduled ==
  isActive /\ sources # {} => status = "speaking"

\* C13: the status becomes speaking when a message with a response-audio chunk is
\* received in an open session, and a step takes it from speaking to listening only if
\* it is the completion callback of a buffer that leaves the scheduled set empty.
C13_SpeakingUntilLastBufferEnds ==
  [][ /\ \A i \in Sessions, m \in AudioMessages :
            m.audio > 0 /\ OnMessage(i, m) => status' = "speaking"
      /\ status = "speaking" /\ status' = "listening" =>
            sources' = {} /\ \E p \in playing : Ended(p) ]_vars

\* C24: a step that ends a session (stop, remote close, transport error) leaves both
\* partial transcripts empty and no buffer scheduled or playing, and a session that is
\* started begins with empty transcripts, an empty scheduled set and the cursor at 0.
C24_TransientsDestroyed ==
  [][ /\ (Stop \/ \E i \in Sessions : OnClose(i) \/ OnError(i)) =>
            /\ userSpeech' = << >> /\ aiSpeech' = << >>
            /\ sources' = {}
            /\ \A p \in playing' : p.stopped
      /\ Start =>
            /\ userSpeech = << >> /\ aiSpeech = << >>
            /\ sources = {}
            /\ nextStartTime' = 0 ]_vars

-----------------------------------------------------------------------------
(* Claims about the tool dispatcher (SpecTools) *)

Events(kind) == { p \in 1..Len(toolTrace) : toolTrace[p].ev = kind }

\* place of the event of the given kind for call id, 0 when there is none
Place(kind, id) ==
  IF \E p \in Events(kind) : toolTrace[p].id = id
    THEN CHOOSE p \in Events(kind) : toolTrace[p].id = id
    ELSE 0

\* calls id and id + 1 arrived in the same message
Consecutive(p, q) ==
  /\ toolTrace[p].ev = "dispatch" /\ toolTrace[q].ev = "dispatch"
  /\ toolTrace[p].msg = toolTrace[q].msg
  /\ toolTrace[q].id = toolTrace[p].id + 1

Pending ==
  UNION { { sess[i].pendResp[k].id : k \in 1..Len(sess[i].pendResp) } : i \in Sessions }

\* C4 as stated: within a batch, the response for call k is sent before the dispatch
\* of call k+1 begins.
C4_ResponseBeforeNextDispatch ==
  \A p, q \in 1..Len(toolTrace) :
     Consecutive(p, q) =>
        Place("send", toolTrace[p].id) # 0 /\ Place("send", toolTrace[p].id) < q

\* what the loop does instead: every dispatched call has one response, either sent or
\* still registered on the unresolved session promise (never both, never twice); within
\* a batch the response of call k is registered before call k+1 is dispatched, and the
\* responses are sent in call order, after every call of the batch was dispatched
ResponsesAfterTheBatch ==
  /\ \A p, q \in Events("send") : toolTrace[p].id = toolTrace[q].id => p = q
  /\ \A p \in Events("dispatch") :
        LET id == toolTrace[p].id
        IN /\ (Place("send", id) # 0) # (id \in Pending)
           /\ Place("enqueue", id) = p + 1
           /\ Place("send", id) # 0 => Place("send", id) > p
  /\ \A p, q \in 1..Len(toolTrace) :
        Consecutive(p, q) =>
           /\ Place("enqueue", toolTrace[p].id) < q
           /\ Place("send", toolTrace[q].id) # 0 =>
                 /\ Place("send", toolTrace[p].id) # 0
                 /\ q < Place("send", toolTrace[p].id)
                 /\ Place("send", toolTrace[p].id) < Place("send", toolTrace[q].id)

\* the two responses of a batch of two calls were sent
BatchAnswered ==
  \E p, q \in 1..Len(toolTrace) :
     /\ Consecutive(p, q)
     /\ Place("send", toolTrace[q].id) # 0

SameLetter(c, d) == c = d \/ {c, d} \in { {"a", "A"}, {"b", "B"} }

\* title contains query as a case-insensitive substring
ContainsIgnoreCase(title, query) ==
  \E k \in 0..(Len(title) - Len(query)) :
     \A j \in 1..Len(query) : SameLetter(title[k + j], query[j])

\* list `after` is list `before` without the items whose title contains the query
Removed(before, after, query) ==
  after = SelectSeq(before, LAMBDA t : ~ContainsIgnoreCase(t.title, query))

\* list `after` is list `before` with the items whose title contains the query completed
Completed(before, after, query) ==
  /\ Len(after) = Len(before)
  /\ \A k \in 1..Len(before) :
        after[k] = IF ContainsIgnoreCase(before[k].title, query)
                     THEN [before[k] EXCEPT !.completed = TRUE]
                     ELSE before[k]

\* C5: deleteItem (type todo, note or event) removes exactly the items of that type
\* whose title contains the query case-insensitively, markTodoComplete completes
\* exactly those tasks, and nothing else in the store changes.
C5_ExactlyTheMatches ==
  \A k \in 1..Len(dispatched) :
     LET d == dispatched[k]
     IN /\ d.fc.name = "deleteItem" /\ d.fc.type = "todo" =>
              /\ Removed(d.pre.todos, d.post.todos, d.fc.title)
              /\ d.post = [d.pre EXCEPT !.todos = d.post.todos]
        /\ d.fc.name = "deleteItem" /\ d.fc.type = "note" =>
              /\ Removed(d.pre.notes, d.post.notes, d.fc.title)
              /\ d.post = [d.pre EXCEPT !.notes = d.post.notes]
        /\ d.fc.name = "deleteItem" /\ d.fc.type = "event" =>
              /\ Removed(d.pre.events, d.post.events, d.fc.title)
              /\ d.post = [d.pre EXCEPT !.events = d.post.events]
        /\ d.fc.name = "markTodoComplete" =>
              /\ Completed(d.pre.todos, d.post.todos, d.fc.title)
              /\ d.post = [d.pre EXCEPT !.todos = d.post.todos]

\* a deleteItem that removed two of three tasks, one of them matched across case, and
\* a markTodoComplete that changed a task
C5_Witness ==
  /\ \E k \in 1..Len(dispatched) :
        /\ dispatched[k].fc.name = "deleteItem"
        /\ Len(dispatched[k].pre.todos) = 3
        /\ Len(dispatched[k].post.todos) = 1
        /\ \E j \in 1..3 : /\ ~Includes(dispatched[k].pre.todos[j].title,
                                       dispatched[k].fc.title)
                           /\ ContainsIgnoreCase(dispatched[k].pre.todos[j].title,
                                                 dispatched[k].fc.title)
  /\ \E k \in 1..Len(dispatched) :
        /\ dispatched[k].fc.name = "markTodoComplete"
        /\ dispatched[k].post # dispatched[k].pre

\* C8: getWorkspaceData returns the serialized store as it is at the time of the call.
C8_SnapshotIsCurrent ==
  \A k \in 1..Len(dispatched) :
     dispatched[k].fc.name = "getWorkspaceData" =>
        dispatched[k].result.data = Stringify(dispatched[k].pre)

\* the list of the store that deleteItem's type names; no list for another type
ListOfType(s, type) ==
  CASE type = "todo" -> s.todos
    [] type = "note" -> s.notes
    [] type = "event" -> s.events
    [] OTHER -> << >>

\* C15: a deleteItem call whose title matches no item of the named type leaves the
\* store as it was and returns the string Error: Item "<title>" not found.
C15_DeleteNothingIsError ==
  \A k \in 1..Len(dispatched) :
     LET d == dispatched[k]
         list == ListOfType(d.pre, d.fc.type)
     IN d.fc.name = "deleteItem"
        /\ (\A j \in 1..Len(list) : ~ContainsIgnoreCase(list[j].title, d.fc.title)) =>
           /\ d.post = d.pre
           /\ d.result = Result("Error:", "Item not found.", d.fc.title)

\* a deleteItem of an event whose title matches no event but matches a task, and a
\* deleteItem with a type that names no list
C15_Witness ==
  /\ \E k \in 1..Len(dispatched) :
        /\ dispatched[k].fc.name = "deleteItem"
        /\ dispatched[k].fc.type = "event"
        /\ dispatched[k].pre.events # << >>
        /\ \E j \in 1..Len(dispatched[k].pre.todos) :
              ContainsIgnoreCase(dispatched[k].pre.todos[j].title, dispatched[k].fc.title)
        /\ dispatched[k].result.kind = "Error:"
  /\ \E k \in 1..Len(dispatched) :
        /\ dispatched[k].fc.name = "deleteItem"
        /\ dispatched[k].fc.type = "task"
        /\ dispatched[k].pre.todos # << >>
        /\ dispatched[k].result.kind = "Error:"

\* C16: setTheme with a theme other than light and dark leaves the store as it was and
\* returns Error: Invalid theme specified.; with light or dark it sets the theme,
\* changes nothing else and returns an OK: string.
C16_SetThemeValidates ==
  \A k \in 1..Len(dispatched) :
     LET d == dispatched[k]
     IN d.fc.name = "setTheme" =>
           IF d.fc.theme \in {"light", "dark"}
             THEN /\ d.post.theme = d.fc.theme
                  /\ d.post = [d.pre EXCEPT !.theme = d.fc.theme]
                  /\ d.result.kind = "OK:"
             ELSE /\ d.post = d.pre
                  /\ d.result = Result("Error:", "Invalid theme specified.", << >>)

\* an invalid theme was refused, and a valid theme was set both on a store that had the
\* other theme and on a store that had it already
C16_Witness ==
  /\ \E k \in 1..Len(dispatched) :
        /\ dispatched[k].fc.name = "setTheme"
        /\ dispatched[k].fc.theme = "purple"
        /\ dispatched[k].result.kind = "Error:"
  /\ \E k \in 1..Len(dispatched) :
        /\ dispatched[k].fc.name = "setTheme"
        /\ dispatched[k].fc.theme = "dark"
        /\ dispatched[k].result.kind = "OK:"

\* C17: addTodo with title T puts exactly one task at the head of the task list,
\* incomplete and titled T, keeps the tasks that were there in their order, changes
\* nothing else in the store, and returns OK: Added task "T".
C17_AddTodoAtHead ==
  \A k \in 1..Len(dispatched) :
     LET d == dispatched[k]
     IN d.fc.name = "addTodo" =>
           /\ Len(d.post.todos) = Len(d.pre.todos) + 1
           /\ d.post.todos[1].title = d.fc.title
           /\ ~d.post.todos[1].completed
           /\ Tail(d.post.todos) = d.pre.todos
           /\ d.post = [d.pre EXCEPT !.todos = d.post.todos]
           /\ d.result = Result("OK:", "Added task", d.fc.title)

\* a task was added to a list that held tasks, and two tasks were added in one batch
C17_Witness ==
  /\ \E k \in 1..Len(dispatched) :
        /\ dispatched[k].fc.name = "addTodo"
        /\ Len(dispatched[k].pre.todos) = 3
  /\ \E k \in 1..Len(dispatched) :
        /\ dispatched[k].fc.name = "addTodo"
        /\ Len(dispatched[k].post.todos) = 5

\* C18: for every tool call, whatever its name, the returned string is prefixed OK: or
\* Error:, and a call that changed the store as asked is answered with OK:.
C18_ResultIsPrefixed ==
  \A k \in 1..Len(dispatched) :
     /\ dispatched[k].result.kind \in {"OK:", "Error:"}
     /\ dispatched[k].post # dispatched[k].pre => dispatched[k].result.kind = "OK:"

\* C19: every tool invocation appends a log entry of type tool first and a log entry of
\* type success or error last, whatever the tool name and the outcome of the call.
C19_LoggedBeforeAndAfter ==
  \A k \in 1..Len(dispatched) :
     LET logged == dispatched[k].logged
     IN /\ Len(logged) >= 2
        /\ logged[Len(logged)].type = "tool"
        /\ logged[Len(logged)].toolName = dispatched[k].fc.name
        /\ logged[1].type \in {"success", "error"}

\* C27: a deleteItem or markTodoComplete call returns an OK: string if and only if the
\* title matched at least one item of the list in the store that the update was applied
\* to, and an Error: string otherwise, whether the store runs the updater inside
\* updateState or later.
C27_FoundReflectsTheUpdate ==
  \A k \in 1..Len(dispatched) :
     LET d == dispatched[k]
         list == IF d.fc.name = "deleteItem" THEN ListOfType(d.pre, d.fc.type)
                 ELSE d.pre.todos
         matched == \E j \in 1..Len(list) : ContainsIgnoreCase(list[j].title, d.fc.title)
     IN d.fc.name \in {"deleteItem", "markTodoComplete"} =>
           /\ d.result.kind \in {"OK:", "Error:"}
           /\ d.result.kind = "OK:" <=> matched

\* the fields of the store that a tool call may change
OwnFields(fc) ==
  CASE fc.name = "setTheme" -> IF fc.theme \in {"light", "dark"} THEN {"theme"} ELSE {}
    [] fc.name = "setLanguage" -> {"language"}
    [] fc.name \in {"addTodo", "markTodoComplete"} -> {"todos"}
    [] fc.name = "addNote" -> {"notes"}
    [] fc.name = "addEvent" -> {"events"}
    [] fc.name = "deleteItem" ->
         IF fc.type = "todo" THEN {"todos"}
         ELSE IF fc.type = "note" THEN {"notes"}
         ELSE IF fc.type = "event" THEN {"events"}
         ELSE {}
    [] OTHER -> {}

\* C30: a tool call changes only its own part of the store: setTheme the theme,
\* setLanguage the language, addTodo and markTodoComplete the tasks, addNote the notes,
\* addEvent the events, deleteItem the list of the requested type; getWorkspaceData, a
\* rejected setTheme and a name that is not a tool change nothing.
C30_OnlyItsOwnPart ==
  \A k \in 1..Len(dispatched) :
     LET d == dispatched[k]
     IN /\ DOMAIN d.post = DOMAIN d.pre
        /\ \A f \in DOMAIN d.pre \ OwnFields(d.fc) : d.post[f] = d.pre[f]

\* a deleteItem for notes removed a note and kept a task whose title matches the same
\* query, and a call with a name that is not a tool was dispatched on the store it left
C30_Witness ==
  /\ Len(dispatched) = 2
  /\ dispatched[1].fc.name = "deleteItem"
  /\ dispatched[1].fc.type = "note"
  /\ Len(dispatched[1].post.notes) < Len(dispatched[1].pre.notes)
  /\ \E j \in 1..Len(dispatched[1].post.todos) :
        ContainsIgnoreCase(dispatched[1].post.todos[j].title, dispatched[1].fc.title)
  /\ dispatched[2].fc.name = "playMusic"
  /\ state = dispatched[1].post

-----------------------------------------------------------------------------
(* Claims about the store under tool calls and page mutations (SpecStore) *)

\* the calls of one tool, in invocation order
CallsOf(name) == SelectSeq(dispatched, LAMBDA d : d.fc.name = name)

\* the titles of the items of a list
Titles(list) == [k \in 1..Len(list) |-> list[k].title]

\* the titles that the calls of one tool asked for, newest first or oldest first
AskedNewestFirst(name) ==
  LET c == CallsOf(name) IN [k \in 1..Len(c) |-> c[Len(c) + 1 - k].fc.title]

AskedOldestFirst(name) ==
  LET c == CallsOf(name) IN [k \in 1..Len(c) |-> c[k].fc.title]

\* the store holds the effect of every tool call made so far, in invocation order, on
\* top of the store that the first call found
StoreHoldsEveryCall ==
  dispatched # << >> =>
     LET first == dispatched[1].pre
         langs == CallsOf("setLanguage")
     IN /\ Titles(state.todos) = AskedNewestFirst("addTodo") \o Titles(first.todos)
        /\ Titles(state.notes) = AskedNewestFirst("addNote") \o Titles(first.notes)
        /\ Titles(state.events) = Titles(first.events) \o AskedOldestFirst("addEvent")
        /\ state.language = IF langs = << >> THEN first.language
                             ELSE langs[Len(langs)].fc.language

\* C23: no update of the store is lost.  After every step the store holds the effect of
\* every tool call made so far, in invocation order, and a mutation made by the page
\* (the dark-mode button) changes the theme and keeps everything the tool calls wrote.
C23_NoLostUpdate ==
  [][ /\ StoreHoldsEveryCall'
      /\ ToggleDarkMode =>
            /\ state'.theme # state.theme
            /\ [state' EXCEPT !.theme = state.theme] = state ]_vars

\* three calls, in two messages, have all left their effect; the dark-mode button was
\* pressed between the first and the second, and the last call found a store that is
\* not the one its closure holds
C23_Witness ==
  /\ Len(dispatched) = 3
  /\ dispatched[2].pre.theme # dispatched[1].post.theme
  /\ dispatched[3].msg = dispatched[2].msg
  /\ Len(state.todos) > Len(dispatched[1].pre.todos)
  /\ Len(state.events) > Len(dispatched[1].pre.events)
  /\ dispatched[3].closureState # dispatched[3].pre

-----------------------------------------------------------------------------
(* Claims about the toast (SpecToast) *)

\* the log entries that raise a toast, newest first
Raising(logs) == SelectSeq(logs, LAMBDA l : l.type \in {"success", "error"})

\* C21: a step that appends success or error entries leaves the toast of the newest of
\* them as the one live toast; a timer that fires clears the toast if it is the timer
\* of the live toast and leaves the toast alone if it is the timer of a superseded
\* one; and a live toast has its own timer pending.
C21_ToastLifetime ==
  [][ /\ Len(Raising(allLogs')) > Len(Raising(allLogs)) =>
            /\ toast'.type = Raising(allLogs')[1].type
            /\ toast'.text = Raising(allLogs')[1].text
            /\ toast'.arg = Raising(allLogs')[1].arg
            /\ toast'.id \notin { timers[k] : k \in 1..Len(timers) }
      /\ TimerFire =>
            toast' = IF Head(timers) = toast.id THEN NoToast ELSE toast
      /\ toast' # NoToast => \E k \in 1..Len(timers') : timers'[k] = toast'.id ]_vars

\* the timer of a superseded toast has fired and the newer toast is still live
C21_Witness ==
  /\ toast # NoToast
  /\ timers = << toast.id >>
  /\ Len(Raising(allLogs)) >= 2

-----------------------------------------------------------------------------
(* Claims about turns and the bounded buffers (SpecTurn, SpecBurst) *)

RECURSIVE Concat(_)
Concat(deltas) == IF deltas = << >> THEN << >> ELSE Head(deltas) \o Concat(Tail(deltas))

\* C6: the turn that a turn-complete event commits holds the concatenation, in arrival
\* order, of the input and of the output deltas received since the previous flush up to
\* that event, and both accumulators are empty right after the flush.
C6_FlushCommitsDeltas ==
  /\ lastTurn.msg > 0 =>
        /\ lastTurn.gotUser = Concat(lastTurn.user)
        /\ lastTurn.gotAi = Concat(lastTurn.ai)
  /\ lastTurn.committed =>
        /\ history # << >>
        /\ history[1].user = Concat(lastTurn.user)
        /\ history[1].ai = Concat(lastTurn.ai)
  /\ lastTurn.msg > 0 /\ lastTurn.msg = nMsgs /\ pendUser = << >> /\ pendAi = << >> =>
        userSpeech = << >> /\ aiSpeech = << >>

\* C14: the effects of the messages on the transcripts take place in arrival order, the
\* flush of a turn-complete message before the append of any later message: once every
\* queued update has been applied, each partial transcript is the concatenation of the
\* deltas that arrived after the latest turn-complete message.
C14_EffectsInArrivalOrder ==
  pendUser = << >> /\ pendAi = << >> =>
     /\ userSpeech = Concat(accUser)
     /\ aiSpeech = Concat(accAi)

\* C22: a turn-complete event appends a turn to the history if and only if at least
\* one of the two transcripts that the flush read is non-empty, a transcript of spaces
\* counting as non-empty.
C22_CommitsUnlessEmpty ==
  lastTurn.msg > 0 =>
     (lastTurn.committed <=> (lastTurn.gotUser # << >> \/ lastTurn.gotAi # << >>))

\* the text holds no character other than the space
OnlySpaces(text) == \A k \in 1..Len(text) : text[k] = " "

\* C22, amended: a turn-complete event appends a turn to the history if and only if at
\* least one of the two transcripts that the flush read holds a character other than
\* white space; the turn holds these two transcripts; and once the flush has been
\* applied and no later message has arrived both accumulators are empty.
C22_CommitsUnlessBlank ==
  lastTurn.msg > 0 =>
     /\ lastTurn.committed <=> ~(OnlySpaces(lastTurn.gotUser) /\ OnlySpaces(lastTurn.gotAi))
     /\ lastTurn.committed =>
           /\ history[1].user = lastTurn.gotUser
           /\ history[1].ai = lastTurn.gotAi
     /\ lastTurn.msg = nMsgs /\ pendUser = << >> /\ pendAi = << >> =>
           userSpeech = << >> /\ aiSpeech = << >>

\* a flush read a user transcript of one space and an empty assistant transcript and
\* appended nothing, after an earlier flush had appended a turn
C22_Witness ==
  /\ lastTurn.msg > 1
  /\ lastTurn.gotUser = << " " >>
  /\ lastTurn.gotAi = << >>
  /\ ~lastTurn.committed
  /\ Len(history) = 1
  /\ userSpeech = << >> /\ aiSpeech = << >>
  /\ pendUser = << >> /\ pendAi = << >>

\* the first n entries of a list
Newest(list, n) == SubSeq(list, 1, Min(Len(list), n))

\* C7: the action log holds at most 15 entries and the history at most 5 turns; each
\* holds the most recently added entries, newest first.
C7_BoundedNewestFirst ==
  /\ Len(actionLogs) <= LogLimit
  /\ Len(history) <= HistoryLimit
  /\ actionLogs = Newest(allLogs, LogLimit)
  /\ history = Newest(allTurns, HistoryLimit)

\* both buffers have evicted entries, the log in a burst of seven entries in one message
C7_Witness ==
  /\ Len(allLogs) > LogLimit + 1
  /\ Len(allTurns) > HistoryLimit

=============================================================================
